---- MODULE Spec2Model ----
(***************************************************************************)
(* OGX Industrial Supply API (src/main.py, src/schemas.py).                *)
(*                                                                         *)
(* The state is the document store behind the API (the three collections   *)
(* product, inquiry and user, the connection handle db, the environment),  *)
(* the last request/response exchange, and the position of every seed      *)
(* request that is in flight.  A handler that makes one database round     *)
(* trip is one action; seed_products, which makes up to twelve, is one     *)
(* action per round trip.                                                  *)
(*                                                                         *)
(* Optional[T] values are sequences of length at most one: None is <<>>,   *)
(* a present value v is <<v>>.  A set of documents stands for a list of    *)
(* documents whose order the store does not specify.                       *)
(***************************************************************************)
EXTENDS Naturals, Integers, Sequences, FiniteSets, TLC

VARIABLES
    db,          \* the connection handle main.py imports: DbNone or DbHandle
    env,         \* the names of the environment variables that are set
    others,      \* names of the collections of the database besides the three
    fault,       \* TRUE while the store rejects every operation
    product,     \* collection "product": a set of documents
    inquiry,     \* collection "inquiry"
    user,        \* collection "user"
    seed,        \* per seed request in flight: pc, index into samples, inserted
    seeded,      \* number of create_document calls seed_products has completed
    created,     \* number of documents each create endpoint has persisted
    request,     \* the last request handled
    response     \* the response to it

vars == <<db, env, others, fault, product, inquiry, user, seed, seeded,
          created, request, response>>

store == <<product, inquiry, user>>

-----------------------------------------------------------------------------
(* Bounds of the model *)

\* create-product requests accepted for persistence
MaxProducts == 1
\* create-inquiry requests accepted for persistence
MaxInquiries == 1
\* collections of the database besides product, inquiry and user
MaxOthers == 10

-----------------------------------------------------------------------------
(* Values *)

None == <<>>

Some(v) == <<v>>

DbNone == "None"

DbHandle == "Database"

\* what str(e) is for the two storage failures
ErrNotAvailable == "Database not available"

ErrRejected == "localhost:27017: [Errno 111] Connection refused, Timeout: 30s"

NoError == "no error"

\* An e-mail address or a URL is the sequence of the tokens of its text, so
\* that the validators look at the text: "buyer@ogx.co" is
\* <<"buyer", "@", "ogx.co">> and "not-an-email" is <<"not-an-email">>.
NotAnEmail == <<"not-an-email">>

BuyerEmail == <<"buyer", "@", "ogx.co">>

NotAUrl == <<"datasheet.pdf">>

DatasheetUrl(file) == <<"https", "://", "example.com", "/datasheets/", file>>

\* pydantic EmailStr: local part, "@", domain
IsEmail(e) == Len(e) = 3 /\ e[2] = "@" /\ e[1] # "" /\ e[3] # ""

\* pydantic HttpUrl: scheme http or https, "://", a host
IsHttpUrl(u) == Len(u) >= 3 /\ u[1] \in {"http", "https"} /\ u[2] = "://" /\ u[3] # ""

-----------------------------------------------------------------------------
(* schemas.py *)

\* Optional field f of a request body: absent is None
Opt(body, f) == IF f \in DOMAIN body THEN Some(body[f]) ELSE None

ProductFields ==
    {"name", "category", "short_description", "specs", "image_url",
     "datasheet_url", "brand", "model", "in_stock"}

\* whether a request body passes the Product schema: name and category are
\* required strings with no length constraint, the URLs must be well formed
ValidProduct(body) ==
    /\ {"name", "category"} \subseteq DOMAIN body
    /\ DOMAIN body \subseteq ProductFields
    /\ \A f \in {"image_url", "datasheet_url"} \cap DOMAIN body : IsHttpUrl(body[f])

\* the validated Product: omitted optional fields are None, in_stock is True
Product(body) ==
    [name              |-> body.name,
     category          |-> body.category,
     short_description |-> Opt(body, "short_description"),
     specs             |-> Opt(body, "specs"),
     image_url         |-> Opt(body, "image_url"),
     datasheet_url     |-> Opt(body, "datasheet_url"),
     brand             |-> Opt(body, "brand"),
     model             |-> Opt(body, "model"),
     in_stock          |-> IF "in_stock" \in DOMAIN body THEN body.in_stock ELSE TRUE]

InquiryFields == {"name", "company", "email", "phone", "message", "product_id"}

\* the Inquiry schema with email: str
ValidInquiry_any_email(body) ==
    /\ {"name", "company", "email", "message"} \subseteq DOMAIN body
    /\ DOMAIN body \subseteq InquiryFields

\* whether a request body passes the Inquiry schema
ValidInquiry(body) ==
    /\ {"name", "company", "email", "message"} \subseteq DOMAIN body
    /\ DOMAIN body \subseteq InquiryFields
    /\ IsEmail(body.email)

Inquiry(body) ==
    [name       |-> body.name,
     company    |-> body.company,
     email      |-> body.email,
     phone      |-> Opt(body, "phone"),
     message    |-> body.message,
     product_id |-> Opt(body, "product_id")]

-----------------------------------------------------------------------------
(* main.py: the built-in sample products of seed_products *)

samples ==
    << Product([name |-> "Cryogenic Solenoid Valve",
                category |-> "Cryogenic Valves",
                short_description |-> "Stainless steel cryogenic solenoid valve for LNG service",
                specs |-> {<<"size", "1/2\"">>, <<"rating", "Class 600">>, <<"temp", "-196°C">>},
                datasheet_url |-> DatasheetUrl("cryogenic-solenoid.pdf"),
                brand |-> "CryoFlow", model |-> "CSV-600", in_stock |-> TRUE]),
       Product([name |-> "API Process Pump",
                category |-> "Process Pumps",
                short_description |-> "Horizontal end-suction process pump per API 610",
                specs |-> {<<"capacity", "120 m3/h">>, <<"head", "80 m">>, <<"material", "A216 WCB">>},
                datasheet_url |-> DatasheetUrl("api610-pump.pdf"),
                brand |-> "ProPump", model |-> "PP-610", in_stock |-> TRUE]),
       Product([name |-> "Mud Logging Sensor",
                category |-> "Drilling Sensors",
                short_description |-> "Real-time drilling mud density & flow sensor",
                specs |-> {<<"range", "0-3 SG">>, <<"protocol", "Modbus RTU">>},
                datasheet_url |-> DatasheetUrl("mud-sensor.pdf"),
                brand |-> "DrillSense", model |-> "MS-300", in_stock |-> FALSE]),
       Product([name |-> "Cryogenic Globe Valve",
                category |-> "Cryogenic Valves",
                short_description |-> "Extended bonnet globe valve for LNG cold service",
                specs |-> {<<"size", "2\"">>, <<"rating", "Class 300">>, <<"material", "CF8M">>},
                datasheet_url |-> DatasheetUrl("cryogenic-globe.pdf"),
                brand |-> "ArcticValve", model |-> "CGV-300", in_stock |-> TRUE]),
       Product([name |-> "Multistage Boiler Feed Pump",
                category |-> "Process Pumps",
                short_description |-> "High-pressure boiler feed pump for utilities",
                specs |-> {<<"stages", "6">>, <<"pressure", "35 bar">>},
                datasheet_url |-> DatasheetUrl("boiler-feed.pdf"),
                brand |-> "ThermoFlow", model |-> "BFP-6S", in_stock |-> TRUE]),
       Product([name |-> "Downhole Pressure Sensor",
                category |-> "Drilling Sensors",
                short_description |-> "High-temp downhole pressure sensor for MWD",
                specs |-> {<<"pressure", "20k psi">>, <<"temp", "175°C">>},
                datasheet_url |-> DatasheetUrl("downhole-pressure.pdf"),
                brand |-> "GeoProbe", model |-> "DPS-20K", in_stock |-> FALSE]) >>

-----------------------------------------------------------------------------
(* The persistence adapter (database.py), as section 4.2 of the             *)
(* specification describes it                                               *)

Collection(collection_name) ==
    CASE collection_name = "product" -> product
      [] collection_name = "inquiry" -> inquiry
      [] collection_name = "user"    -> user

\* the identifier the store assigns: one no document of the collection has.
\* Nothing is ever deleted, so the size of the collection yields a fresh one.
ObjectId(collection_name) ==
    <<collection_name, Cardinality(Collection(collection_name)) + 1>>

\* str(): the text of a value
str(v) == ToString(v)

\* the failure of a persistence operation attempted now, NoError when it
\* succeeds: no connection handle, or the store rejects the operation
DbError ==
    IF db = DbNone THEN ErrNotAvailable
    ELSE IF fault THEN ErrRejected
    ELSE NoError

\* the document a record is stored as: its fields and the identifier
Document(oid, data) ==
    [f \in DOMAIN data \cup {"_id"} |-> IF f = "_id" THEN oid ELSE data[f]]

\* create_document(kind, record), when it succeeds: the insertion
create_document(collection_name, data) ==
    LET doc == Document(ObjectId(collection_name), data) IN
    /\ product' = IF collection_name = "product" THEN product \cup {doc} ELSE product
    /\ inquiry' = IF collection_name = "inquiry" THEN inquiry \cup {doc} ELSE inquiry
    /\ user'    = IF collection_name = "user"    THEN user \cup {doc}    ELSE user

\* the identifier create_document returns, as a string
inserted_id(collection_name) == str(ObjectId(collection_name))

RECURSIVE KSubsets(_, _)
\* the subsets of S that have k elements
KSubsets(S, k) ==
    IF k = 0 THEN {{}}
    ELSE IF Cardinality(S) < k THEN {}
    ELSE IF Cardinality(S) = k THEN {S}
    ELSE LET x == CHOOSE y \in S : TRUE IN
         KSubsets(S \ {x}, k) \cup {T \cup {x} : T \in KSubsets(S \ {x}, k - 1)}

\* what a cursor limited to limit documents can yield of the set M: all of
\* M when it has no more than limit documents, else any limit of them (the
\* store imposes no order)
Limited(M, limit) ==
    IF Cardinality(M) <= limit THEN {M} ELSE KSubsets(M, limit)

\* the documents an exact-match filter (a mapping of field to value) selects
Matching(docs, filter_dict) ==
    {d \in docs : \A f \in DOMAIN filter_dict : d[f] = filter_dict[f]}

\* get_documents(kind, filter, limit), when it succeeds: the possible results
get_documents(collection_name, filter_dict, limit) ==
    Limited(Matching(Collection(collection_name), filter_dict), limit)

\* db.list_collection_names(): the collections that hold a document, and
\* the other collections of the database
list_collection_names ==
    {n \in {"product", "inquiry", "user"} : Collection(n) # {}} \cup others

-----------------------------------------------------------------------------
(* Requests *)

\* list_products(category, limit = 24)
DefaultLimit == 24

\* collections[:10]
CollectionsShown == 10

\* s[:n]
Truncate(s, n) == IF Len(s) <= n THEN s ELSE SubSeq(s, 1, n)

\* the bodies POSTed to /api/products
ProductBodies ==
    { [name |-> "Test Valve", category |-> "Valves", in_stock |-> FALSE],
      [name |-> "Cryogenic Solenoid Valve", category |-> "Cryogenic Valves",
       model |-> "CSV-600"],
      [name |-> "", category |-> ""],
      [category |-> "Valves"],
      [name |-> "Gate Valve", category |-> "Valves", datasheet_url |-> NotAUrl] }

\* the bodies POSTed to /api/inquiries
InquiryBodies ==
    { [name |-> "Ada", company |-> "Acme", email |-> BuyerEmail,
       message |-> "Quote for 10 units", product_id |-> "1"],
      [name |-> "Ada", company |-> "Acme", email |-> NotAnEmail,
       message |-> "Quote for 10 units"],
      [name |-> "Ada", company |-> "Acme", email |-> BuyerEmail] }

\* the category query parameter: omitted, or a string
Categories == {None, Some(""), Some("Valves"), Some("Cryogenic Valves")}

\* the limit query parameter: omitted, or a non-negative integer
Limits == {None, Some(0), Some(1), Some(DefaultLimit + 1)}

SeedSlots == {1, 2}

IdleSeed == [pc |-> "idle", i |-> 0, inserted |-> 0]

\* no seed request is in flight
Idle == \A r \in SeedSlots : seed[r].pc = "idle"

\* HTTPException(status_code=500, detail=str(e))
ServerError(e) == [status |-> 500, detail |-> e]

\* the framework's answer to a body that fails validation
ValidationError == [status |-> 422, detail |-> "validation error"]

Ok(body) == [status |-> 200, body |-> body]

-----------------------------------------------------------------------------
(* main.py: the handlers *)

read_root ==
    /\ request' = [endpoint |-> "read_root"]
    /\ response' = Ok([message |-> "OGX Industrial Supply Backend is running"])
    /\ UNCHANGED <<db, env, others, fault, store, seed, seeded, created>>

\* test_database with response["collections"] = collections, not cut to 10
test_database_uncut ==
    LET connected == [backend |-> "Running",
                      database |-> "Available",
                      database_url |-> Some(IF "DATABASE_URL" \in env THEN "Set" ELSE "Not Set"),
                      database_name |-> Some(IF "DATABASE_NAME" \in env THEN "Set" ELSE "Not Set"),
                      connection_status |-> "Connected",
                      collections |-> {}]
    IN
    /\ request' = [endpoint |-> "test_database"]
    /\ IF db # DbNone
       THEN IF fault
            THEN response' = Ok([connected EXCEPT
                     !.database = "Connected but Error: " \o Truncate(ErrRejected, 50)])
            ELSE response' = Ok([connected EXCEPT
                         !.collections = list_collection_names,
                         !.database = "Connected & Working"])
       ELSE response' = Ok([connected EXCEPT
                     !.database = "Available but not initialized",
                     !.database_url = None, !.database_name = None,
                     !.connection_status = "Not Connected"])
    /\ UNCHANGED <<db, env, others, fault, store, seed, seeded, created>>

\* the status texts are the source's without their leading pictograph
test_database ==
    LET base == [backend |-> "Running",
                 database |-> "Not Available",
                 database_url |-> None,
                 database_name |-> None,
                 connection_status |-> "Not Connected",
                 collections |-> {}]
        connected == [base EXCEPT
                 !.database_url = Some(IF "DATABASE_URL" \in env THEN "Set" ELSE "Not Set"),
                 !.database_name = Some(IF "DATABASE_NAME" \in env THEN "Set" ELSE "Not Set"),
                 !.connection_status = "Connected"]
    IN
    /\ request' = [endpoint |-> "test_database"]
    /\ IF db # DbNone
       THEN IF fault
            THEN response' = Ok([connected EXCEPT
                     !.database = "Connected but Error: " \o Truncate(ErrRejected, 50)])
            ELSE \E collections \in Limited(list_collection_names, CollectionsShown) :
                     response' = Ok([connected EXCEPT
                         !.collections = collections,
                         !.database = "Connected & Working"])
       ELSE response' = Ok([base EXCEPT !.database = "Available but not initialized"])
    /\ UNCHANGED <<db, env, others, fault, store, seed, seeded, created>>

\* create_product that answers 200 with no id when create_document raises
create_product_swallows(body) ==
    /\ request' = [endpoint |-> "create_product", body |-> body]
    /\ IF ~ValidProduct(body)
       THEN /\ response' = ValidationError
            /\ UNCHANGED <<store, created>>
       ELSE IF DbError # NoError
       THEN /\ response' = Ok([id |-> "None"])
            /\ UNCHANGED <<store, created>>
       ELSE /\ created.product < MaxProducts
            /\ create_document("product", Product(body))
            /\ response' = Ok([id |-> inserted_id("product")])
            /\ created' = [created EXCEPT !.product = @ + 1]
    /\ UNCHANGED <<db, env, others, fault, seed, seeded>>

create_product(body) ==
    /\ request' = [endpoint |-> "create_product", body |-> body]
    /\ IF ~ValidProduct(body)
       THEN /\ response' = ValidationError
            /\ UNCHANGED <<store, created>>
       ELSE IF DbError # NoError
       THEN /\ response' = ServerError(DbError)
            /\ UNCHANGED <<store, created>>
       ELSE /\ created.product < MaxProducts
            /\ create_document("product", Product(body))
            /\ response' = Ok([id |-> inserted_id("product")])
            /\ created' = [created EXCEPT !.product = @ + 1]
    /\ UNCHANGED <<db, env, others, fault, seed, seeded>>

\* the renaming with d["id"] = str(d.get("id")): the wrong key is read
Public_wrong_key(d) ==
    [f \in (DOMAIN d \ {"_id"}) \cup {"id"} |-> IF f = "id" THEN "None" ELSE d[f]]

\* the object list_products returns for a document: _id renamed to id, as text
Public(d) ==
    [f \in (DOMAIN d \ {"_id"}) \cup {"id"} |-> IF f = "id" THEN str(d._id) ELSE d[f]]

\* filter_q left empty whatever the category
filter_q_unfiltered(category) == <<>>

\* {"category": category} if category else {}
filter_q(category) ==
    IF category # None /\ category[1] # "" THEN [category |-> category[1]] ELSE <<>>

\* list_products that passes the default limit whatever limit it is given
list_products_ignores_limit(category, limit) ==
    /\ request' = [endpoint |-> "list_products", category |-> category, limit |-> limit]
    /\ IF DbError # NoError
       THEN response' = ServerError(DbError)
       ELSE \E docs \in get_documents("product", filter_q(category), DefaultLimit) :
                response' = Ok({Public(d) : d \in docs})
    /\ UNCHANGED <<db, env, others, fault, store, seed, seeded, created>>

\* list_products whose renaming reaches the stored documents
list_products_aliased(category, limit) ==
    /\ request' = [endpoint |-> "list_products", category |-> category, limit |-> limit]
    /\ IF DbError # NoError
       THEN /\ response' = ServerError(DbError)
            /\ UNCHANGED store
       ELSE \E docs \in get_documents("product", filter_q(category),
                                      IF limit = None THEN DefaultLimit ELSE limit[1]) :
                /\ response' = Ok({Public(d) : d \in docs})
                /\ product' = (product \ docs) \cup {Public(d) : d \in docs}
                /\ UNCHANGED <<inquiry, user>>
    /\ UNCHANGED <<db, env, others, fault, seed, seeded, created>>

list_products(category, limit) ==
    /\ request' = [endpoint |-> "list_products", category |-> category, limit |-> limit]
    /\ IF DbError # NoError
       THEN response' = ServerError(DbError)
       ELSE \E docs \in get_documents("product", filter_q(category),
                                      IF limit = None THEN DefaultLimit ELSE limit[1]) :
                response' = Ok({Public(d) : d \in docs})
    /\ UNCHANGED <<db, env, others, fault, store, seed, seeded, created>>

create_inquiry(body) ==
    /\ request' = [endpoint |-> "create_inquiry", body |-> body]
    /\ IF ~ValidInquiry(body)
       THEN /\ response' = ValidationError
            /\ UNCHANGED <<store, created>>
       ELSE IF DbError # NoError
       THEN /\ response' = ServerError(DbError)
            /\ UNCHANGED <<store, created>>
       ELSE /\ created.inquiry < MaxInquiries
            /\ create_document("inquiry", Inquiry(body))
            /\ response' = Ok([id |-> inserted_id("inquiry"), status |-> "received"])
            /\ created' = [created EXCEPT !.inquiry = @ + 1]
    /\ UNCHANGED <<db, env, others, fault, seed, seeded>>

\* seed_products returns or raises: the exchange completes
seed_done(r, resp) ==
    /\ seed' = [seed EXCEPT ![r] = IdleSeed]
    /\ request' = [endpoint |-> "seed_products"]
    /\ response' = resp

\* the loop of seed_products moves past samples[seed[r].i], having inserted
\* n documents so far; after the last sample the handler returns the count
seed_advance(r, n) ==
    IF seed[r].i = Len(samples)
    THEN seed_done(r, Ok([status |-> "ok", inserted |-> n]))
    ELSE /\ seed' = [seed EXCEPT ![r] = [pc |-> "check", i |-> seed[r].i + 1, inserted |-> n]]
         /\ UNCHANGED <<request, response>>

\* POST /api/products/seed arrives: inserted = 0, the loop is at the first sample
seed_products(r) ==
    /\ seed[r].pc = "idle"
    /\ seed' = [seed EXCEPT ![r] = [pc |-> "check", i |-> 1, inserted |-> 0]]
    /\ UNCHANGED <<db, env, others, fault, store, seeded, created, request, response>>

\* seed_check that looks for {"name": p.name, "model": p.brand}
seed_check_wrong_key(r) ==
    LET p == samples[seed[r].i] IN
    /\ seed[r].pc = "check"
    /\ IF DbError # NoError
       THEN seed_done(r, ServerError(DbError))
       ELSE \E exists \in get_documents("product", [name |-> p.name, model |-> p.brand], 1) :
                IF exists = {}
                THEN /\ seed' = [seed EXCEPT ![r].pc = "insert"]
                     /\ UNCHANGED <<request, response>>
                ELSE seed_advance(r, seed[r].inserted)
    /\ UNCHANGED <<db, env, others, fault, store, seeded, created>>

\* exists = get_documents("product", {"name": p.name, "model": p.model}, limit=1)
seed_check(r) ==
    LET p == samples[seed[r].i] IN
    /\ seed[r].pc = "check"
    /\ IF DbError # NoError
       THEN seed_done(r, ServerError(DbError))
       ELSE \E exists \in get_documents("product", [name |-> p.name, model |-> p.model], 1) :
                IF exists = {}
                THEN /\ seed' = [seed EXCEPT ![r].pc = "insert"]
                     /\ UNCHANGED <<request, response>>
                ELSE seed_advance(r, seed[r].inserted)
    /\ UNCHANGED <<db, env, others, fault, store, seeded, created>>

\* create_document("product", p); inserted += 1
seed_insert(r) ==
    /\ seed[r].pc = "insert"
    /\ IF DbError # NoError
       THEN /\ seed_done(r, ServerError(DbError))
            /\ UNCHANGED <<store, seeded>>
       ELSE /\ create_document("product", samples[seed[r].i])
            /\ seeded' = seeded + 1
            /\ seed_advance(r, seed[r].inserted + 1)
    /\ UNCHANGED <<db, env, others, fault, created>>

\* the store starts or stops rejecting operations (a transient fault)
store_fault ==
    /\ db # DbNone
    /\ fault' = ~fault
    /\ UNCHANGED <<db, env, others, store, seed, seeded, created, request, response>>

-----------------------------------------------------------------------------
(* Specifications *)

EnvNames == {"DATABASE_URL", "DATABASE_NAME"}

\* the process has started; the handle exists only if both variables are set
Started ==
    /\ db \in {DbNone, DbHandle}
    /\ env \in SUBSET EnvNames
    /\ db = DbHandle => env = EnvNames
    /\ fault = FALSE
    /\ inquiry = {}
    /\ user = {}
    /\ seed = [r \in SeedSlots |-> IdleSeed]
    /\ seeded = 0
    /\ created = [product |-> 0, inquiry |-> 0]
    /\ request = [endpoint |-> "none"]
    /\ response = [status |-> 0]

Init ==
    /\ Started
    /\ others = {}
    /\ product = {}

\* n documents of one product, as earlier runs of the process left them
Prior(body, n) == {Document(<<"product", k>>, Product(body)) : k \in 1..n}

InitBulk ==
    /\ Started
    /\ others = {}
    /\ \E body \in {b \in ProductBodies : ValidProduct(b)} :
       \E n \in {DefaultLimit - 1, DefaultLimit} : product = Prior(body, n)

OtherNames(n) == {"collection" \o ToString(k) : k \in 1..n}

InitDiag ==
    /\ Started
    /\ \E n \in 0..MaxOthers : others = OtherNames(n)
    /\ product = {}

\* requests are handled in succession: one begins when none is in flight
Next ==
    \/ Idle /\ read_root
    \/ Idle /\ test_database
    \/ Idle /\ \E body \in ProductBodies : create_product(body)
    \/ Idle /\ \E category \in Categories : list_products(category, None)
    \/ Idle /\ \E body \in InquiryBodies : create_inquiry(body)
    \/ Idle /\ seed_products(1)
    \/ \E r \in SeedSlots : seed_check(r)
    \/ \E r \in SeedSlots : seed_insert(r)
    \/ store_fault

Spec == Init /\ [][Next]_vars

\* seed requests run concurrently: each database round trip is a step, and
\* the steps of different requests interleave
NextConc ==
    \/ \E r \in SeedSlots : seed_products(r)
    \/ \E r \in SeedSlots : seed_check(r)
    \/ \E r \in SeedSlots : seed_insert(r)
    \/ store_fault

SpecConc == Init /\ [][NextConc]_vars

\* create and list requests on a collection that already holds documents
NextBulk ==
    \/ \E body \in ProductBodies : created.product = 0 /\ create_product(body)
    \/ \E category \in Categories, limit \in Limits : list_products(category, limit)
    \/ store_fault

SpecBulk == InitBulk /\ [][NextBulk]_vars

\* the diagnostic endpoint on a database that holds other collections
NextDiag ==
    \/ read_root
    \/ test_database
    \/ \E body \in ProductBodies : create_product(body)
    \/ \E body \in InquiryBodies : create_inquiry(body)
    \/ store_fault

SpecDiag == InitDiag /\ [][NextDiag]_vars

-----------------------------------------------------------------------------
(* Steps, as the exchange they complete shows them.  request and response  *)
(* are those of the last completed exchange; a step that leaves seed and   *)
(* fault alone and changes anything is the handling of the request it      *)
(* leaves in request'.                                                     *)

Handles(endpoint) ==
    /\ request'.endpoint = endpoint
    /\ UNCHANGED <<seed, fault>>

\* seed request r returns its count in this step
SeedReturns(r) ==
    /\ seed[r].pc # "idle"
    /\ seed'[r].pc = "idle"
    /\ response'.status = 200

\* the last completed exchange is a seed call that returned successfully
AfterSeed ==
    /\ request.endpoint = "seed_products"
    /\ response.status = 200

\* the stored products a listing with this category parameter draws from
Eligible(docs, category) ==
    IF category # None /\ category[1] # ""
    THEN {d \in docs : d.category = category[1]}
    ELSE docs

-----------------------------------------------------------------------------
(* Claims *)

\* C1: seed calls made in succession are idempotent.  Seed calls never
\* insert more than 6 documents in total; and once a seed call has returned
\* successfully, the next exchange, if it is a seed call, changes the
\* product collection in none of its steps and returns inserted = 0.
C1_SeedIdempotent ==
    [][ /\ seeded' <= Len(samples)
        /\ (AfterSeed /\ ~Idle) => product' = product
        /\ (AfterSeed /\ \E r \in SeedSlots : SeedReturns(r))
              => response'.body.inserted = 0
      ]_vars

\* a seed call has returned inserted = 0 on a collection that holds exactly
\* the six documents earlier seed calls inserted
C1_Witness ==
    /\ request.endpoint = "seed_products"
    /\ response = Ok([status |-> "ok", inserted |-> 0])
    /\ seeded = Len(samples)
    /\ Cardinality(product) = Len(samples)
    /\ inquiry = {}

\* the object the listing just returned for the product the create-product
\* exchange before it stored: same id, and every field as validated
ListsCreated ==
    \E o \in response'.body :
        /\ o.id = response.body.id
        /\ \A f \in ProductFields : o[f] = Product(request.body)[f]

\* a successful create-product is followed by a successful list-products
\* with the product's category as filter and the default limit
CreateThenList ==
    /\ request.endpoint = "create_product"
    /\ response.status = 200
    /\ Handles("list_products")
    /\ request'.category = Some(request.body.category)
    /\ request'.limit = None
    /\ response'.status = 200

\* C2, as claimed: create-then-list with the product's category and the
\* default limit always returns the created product (here for the inputs
\* whose name and category are not empty).
C2_CreateThenList ==
    [][ (CreateThenList /\ request.body.name # "" /\ request.body.category # "")
            => ListsCreated ]_vars

\* C2, amended: create-then-list with the product's category and the default
\* limit returns the created product (its fields, and the id the create
\* returned) whenever at most 24 stored products are eligible for the listing.
C2_CreateThenListWithinLimit ==
    [][ (CreateThenList /\ Cardinality(Eligible(product, request'.category)) <= DefaultLimit)
            => ListsCreated ]_vars

\* a listing with a category filter and the default limit has returned 24
\* products, the one created as the 24th of its category among them
C2_Witness ==
    /\ request.endpoint = "list_products"
    /\ request.category = Some("Valves")
    /\ request.limit = None
    /\ response.status = 200
    /\ created.product = 1
    /\ Cardinality(Eligible(product, request.category)) = DefaultLimit
    /\ \E o \in response.body : o.id = str(<<"product", DefaultLimit>>) /\ ~o.in_stock

\* C3, as claimed: whatever string is given as category, every returned
\* product has exactly that category.
C3_FilterExact ==
    [][ (Handles("list_products") /\ response'.status = 200 /\ request'.category # None)
            => \A o \in response'.body : o.category = request'.category[1] ]_vars

\* C3, amended: for a non-empty category every returned product has exactly
\* that category; with the category omitted or empty no filter applies, and
\* every stored product is returned while the collection is within the limit.
C3_FilterExactNonEmpty ==
    [][ (Handles("list_products") /\ response'.status = 200)
            => IF request'.category # None /\ request'.category[1] # ""
               THEN \A o \in response'.body : o.category = request'.category[1]
               ELSE Cardinality(product) <= DefaultLimit
                       => {o.id : o \in response'.body} = {str(d._id) : d \in product}
      ]_vars

\* a listing filtered by "Cryogenic Valves" has returned two products or
\* more while the collection also holds products of other categories
C3_Witness ==
    /\ request.endpoint = "list_products"
    /\ request.category = Some("Cryogenic Valves")
    /\ response.status = 200
    /\ Cardinality(response.body) >= 2
    /\ \E d \in product : d.category # "Cryogenic Valves"

\* C4: a listing returns at most limit products (24 when limit is omitted),
\* and exactly limit of them when at least limit stored products are eligible.
C4_LimitBounds ==
    [][ (Handles("list_products") /\ response'.status = 200)
            => LET limit == IF request'.limit = None THEN 24 ELSE request'.limit[1]
                   n == Cardinality(response'.body)
               IN  /\ n <= limit
                   /\ Cardinality(Eligible(product, request'.category)) >= limit => n = limit
      ]_vars

\* a listing with limit omitted has returned 24 of more than 24 products
C4_Witness ==
    /\ request.endpoint = "list_products"
    /\ request.limit = None
    /\ response.status = 200
    /\ Cardinality(response.body) = 24
    /\ Cardinality(Eligible(product, request.category)) > 24

\* the request bodies that break the schema: no name, a malformed URL, a
\* malformed e-mail address, no message
BreaksSchema(body) ==
    \/ body \in ProductBodies /\ "name" \notin DOMAIN body
    \/ body \in ProductBodies /\ "datasheet_url" \in DOMAIN body /\ body.datasheet_url = NotAUrl
    \/ body \in InquiryBodies /\ body.email = NotAnEmail
    \/ body \in InquiryBodies /\ "message" \notin DOMAIN body

\* C5: a create-product or create-inquiry request whose body breaks the
\* schema is answered with a validation error and changes no collection.
C5_RejectedBeforePersistence ==
    [][ ((Handles("create_product") \/ Handles("create_inquiry")) /\ BreaksSchema(request'.body))
            => response'.status = 422 /\ store' = store ]_vars

\* an inquiry with the e-mail address "not-an-email" has been refused while
\* the store was accepting writes
C5_Witness ==
    /\ request.endpoint = "create_inquiry"
    /\ request.body.email = NotAnEmail
    /\ response.status = 422
    /\ db = DbHandle
    /\ ~fault
    /\ inquiry = {}

\* C6: no persisted product has an empty name or an empty category.
C6_NoEmptyNameOrCategory ==
    \A d \in product : d.name # "" /\ d.category # ""

\* a persistence operation is attempted in this step
Persists ==
    \/ Handles("create_product") /\ ValidProduct(request'.body)
    \/ Handles("create_inquiry") /\ ValidInquiry(request'.body)
    \/ Handles("list_products")
    \/ \E r \in SeedSlots : seed[r].pc \in {"check", "insert"} /\ seed'[r] # seed[r]

\* C7: a handler whose persistence operation fails answers 500 with the
\* failure message as detail, at once (a seed call stops there), and the
\* failed operation stores nothing.
C7_PersistenceFailureIs500 ==
    [][ (Persists /\ DbError # NoError)
            => /\ response'.status = 500
               /\ response'.detail = DbError
               /\ store' = store
               /\ Idle'
      ]_vars

\* a seed call has been answered 500 after it had inserted some samples
C7_Witness ==
    /\ request.endpoint = "seed_products"
    /\ response = ServerError(ErrRejected)
    /\ seeded \in 1..(Len(samples) - 1)
    /\ Idle

\* C8: the diagnostic endpoint always answers 200; connection_status tells
\* whether the handle is present, and collections holds at most 10 names.
C8_DiagnosticNeverFails ==
    request.endpoint = "test_database" =>
          /\ response.status = 200
          /\ response.body.connection_status =
                 (IF db = DbNone THEN "Not Connected" ELSE "Connected")
          /\ Cardinality(response.body.collections) <= 10

\* the diagnostic endpoint has reported 10 of more than 10 collections
C8_Witness ==
    /\ request.endpoint = "test_database"
    /\ response.status = 200
    /\ Cardinality(response.body.collections) = 10
    /\ Cardinality(list_collection_names) > 10

\* C9: under concurrent seed requests no two stored products carry the same
\* (name, model) pair of a sample, and seed calls insert at most 6 documents.
C9_NoDuplicateSamples ==
    /\ \A d1, d2 \in product :
          (d1.name = d2.name /\ d1.model = d2.model) => d1 = d2
    /\ seeded <= Len(samples)

\* C10: stored documents are append-only: every step keeps every document of
\* the product and inquiry collections as it is, and the user collection
\* stays empty.
C10_AppendOnly ==
    [][ /\ product \subseteq product'
        /\ inquiry \subseteq inquiry'
        /\ user = {} /\ user' = {}
      ]_vars

\* a listing has returned objects with id while the stored documents, an
\* inquiry among them, still carry _id
C10_Witness ==
    /\ request.endpoint = "list_products"
    /\ response.status = 200
    /\ Cardinality(response.body) >= 2
    /\ \A o \in response.body : "id" \in DOMAIN o /\ "_id" \notin DOMAIN o
    /\ \A d \in product \cup inquiry : "_id" \in DOMAIN d /\ "id" \notin DOMAIN d
    /\ inquiry # {}

====
